---- MODULE Spec2Model ----
(***************************************************************************)
(* Model of the Ethereum deposit tracker (src/main.py): the poll loop of   *)
(* DepositTracker.track_deposits, the block scan of process_new_blocks,    *)
(* the decoding of process_deposit, the sqlite insert of save_deposit and  *)
(* the Telegram call of send_telegram_notification.                        *)
(*                                                                         *)
(* Strings are sequences of one-character strings, byte strings are        *)
(* sequences of numbers 0..255.  The web3 objects are the ones of the      *)
(* web3.py release that still has w3.fromWei (line 161): tx['input'] is a  *)
(* '0x' hex string, tx['hash'] is a HexBytes whose hex() is '0x'-prefixed. *)
(***************************************************************************)
EXTENDS Integers, Sequences, FiniteSets, TLC

VARIABLES
    pc,                    \* position of the single thread of control
    height,                \* the chain's latest block number (environment)
    last_processed_block,  \* DepositTracker.last_processed_block (the cursor)
    current_block,         \* local of track_deposits (line 86)
    start_block,           \* parameter of process_new_blocks
    end_block,             \* parameter of process_new_blocks
    block_number,          \* loop variable of line 101
    block,                 \* local of process_new_blocks (line 102)
    txi,                   \* position of the loop of line 103 in block['transactions']
    deposit,               \* local of process_deposit (line 114)
    store,                 \* rows of table deposit, in insertion order
    posts,                 \* payloads handed to requests.post, in call order
    errors,                \* number of logger.error lines written
    failures,              \* number of faults the environment has injected
    con,                   \* the sqlite connection of line 33: "open" or "closed"
    init_cursor,           \* history: the cursor computed by __init__
    scan_store,            \* history: Len(store) when the current scan began
    scan_posts             \* history: Len(posts) when the current scan began

vars == <<pc, height, last_processed_block, current_block, start_block,
          end_block, block_number, block, txi, deposit, store, posts,
          errors, failures, con, init_cursor, scan_store, scan_posts>>

(***************************************************************************)
(* Bounds of the model.                                                    *)
(***************************************************************************)
StartHeight == 1002     \* latest block number when the process starts
MaxNewBlocks == 1       \* blocks the chain grows by while the tracker runs
MaxFailures == 1        \* faults (RPC, store, notifier) the environment injects

(***************************************************************************)
(* Program constants.                                                      *)
(***************************************************************************)
LOOKBACK == 1000        \* line 77: "Start from 1000 blocks ago"
PubkeyFrom == 2         \* line 119: tx['input'][2:98]
PubkeyTo == 98          \* line 119: tx['input'][2:98]

Unset == -1             \* a name that is not bound yet
NoDestination == <<>>   \* tx['to'] of a contract creation (None, falsy)

MaxHeight == StartHeight + MaxNewBlocks

(***************************************************************************)
(* Strings.                                                                *)
(***************************************************************************)
LowerChar(c) ==
    CASE c = "A" -> "a" [] c = "B" -> "b" [] c = "C" -> "c"
      [] c = "D" -> "d" [] c = "E" -> "e" [] c = "F" -> "f"
      [] c = "X" -> "x" [] OTHER -> c

\* str.lower()
Lower(s) == [i \in 1..Len(s) |-> LowerChar(s[i])]

Min(a, b) == IF a <= b THEN a ELSE b

\* s[from:to] for 0 <= from <= to
Slice(s, from, to) == SubSeq(s, from + 1, Min(to, Len(s)))

HexDigits == <<"0", "1", "2", "3", "4", "5", "6", "7",
               "8", "9", "a", "b", "c", "d", "e", "f">>

RECURSIVE HexOfBytes(_)
HexOfBytes(b) ==
    IF b = <<>> THEN <<>>
    ELSE <<HexDigits[(Head(b) \div 16) + 1], HexDigits[(Head(b) % 16) + 1]>>
         \o HexOfBytes(Tail(b))

\* HexBytes.hex()
Hex(b) == <<"0", "x">> \o HexOfBytes(b)

Rep(c, n) == [i \in 1..n |-> c]

(***************************************************************************)
(* Configuration (environment variables, lines 47-51).                     *)
(***************************************************************************)
DEPOSIT_CONTRACT_ADDRESS == <<"0", "x", "2", "1", "9", "a", "b", "5">>
TELEGRAM_CHAT_ID == "chat"

(***************************************************************************)
(* The chain served by the RPC endpoint: a fixed canonical chain (reorgs   *)
(* are out of scope).  Four blocks carry transactions.                     *)
(***************************************************************************)
FirstHeight == StartHeight - LOOKBACK + 1

OtherAddress == <<"0", "x", "C", "0", "f", "f", "e", "e">>
ChecksumAddress == <<"0", "x", "2", "1", "9", "A", "b", "5">>
UpperAddress == <<"0", "X", "2", "1", "9", "A", "B", "5">>

Selector == <<"2", "2", "8", "9", "5", "1", "1", "8">>

Tx(to, gas, gasPrice, hash, input) ==
    [to |-> to, gas |-> gas, gasPrice |-> gasPrice, hash |-> hash, input |-> input]

TxsAt(h) ==
    CASE h = FirstHeight ->
           << Tx(OtherAddress, 21000, 50, <<1, 16>>, <<"0", "x">>),
              Tx(ChecksumAddress, 21000, 50, <<10, 171>>,
                 <<"0", "x">> \o Selector \o Rep("c", 4)),
              Tx(NoDestination, 90000, 50, <<1, 17>>,
                 <<"0", "x", "6", "0", "8", "0">>) >>
      [] h = FirstHeight + 1 ->
           << Tx(DEPOSIT_CONTRACT_ADDRESS, 30000, 20, <<2, 1>>, <<"0", "x">>),
              Tx(UpperAddress, 40000, 20, <<2, 2>>,
                 <<"0", "x">> \o Selector) >>
      [] h = StartHeight + 1 ->
           << Tx(ChecksumAddress, 21000, 10, <<171, 205>>,
                 <<"0", "x">> \o Selector \o Rep("a", 96) \o Rep("b", 8)) >>
      [] h = StartHeight + 2 ->
           << Tx(OtherAddress, 21000, 10, <<3, 1>>, <<"0", "x">>) >>
      [] OTHER -> <<>>

Timestamp(h) == 1600000000 + 12 * h

\* w3.eth.get_block(h, full_transactions=True)
BlockAt(h) == [number |-> h, timestamp |-> Timestamp(h), transactions |-> TxsAt(h)]

NoBlock == [number |-> Unset, timestamp |-> Unset, transactions |-> <<>>]

NoDeposit == [blockNumber |-> Unset, blockTimestamp |-> Unset, fee |-> Unset,
              hash |-> <<>>, pubkey |-> <<>>]

(***************************************************************************)
(* The pure parts of the tracker.                                          *)
(***************************************************************************)
\* variant of Matches: the addresses are compared as they are written
MatchesCaseSensitive(tx) ==
    /\ tx.to /= <<>>
    /\ tx.to = DEPOSIT_CONTRACT_ADDRESS

\* variant of Matches: a transaction without destination passes the test
MatchesNoDestination(tx) ==
    \/ tx.to = <<>>
    \/ Lower(tx.to) = Lower(DEPOSIT_CONTRACT_ADDRESS)

\* line 104: tx['to'] and tx['to'].lower() == DEPOSIT_CONTRACT_ADDRESS.lower()
Matches(tx) ==
    /\ tx.to /= <<>>
    /\ Lower(tx.to) = Lower(DEPOSIT_CONTRACT_ADDRESS)

\* variant of Decode: the fee is kept in 20 bits
DecodeTruncated(tx, b) ==
    [blockNumber |-> b.number,
     blockTimestamp |-> b.timestamp,
     fee |-> (tx.gas * tx.gasPrice) % 1048576,
     hash |-> Hex(tx.hash),
     pubkey |-> Slice(tx.input, PubkeyFrom, PubkeyTo)]

\* lines 114-120: the deposit dictionary
Decode(tx, b) ==
    [blockNumber |-> b.number,
     blockTimestamp |-> b.timestamp,
     fee |-> tx.gas * tx.gasPrice,
     hash |-> Hex(tx.hash),
     pubkey |-> Slice(tx.input, PubkeyFrom, PubkeyTo)]

\* w3.fromWei(n, 'ether'): the decimal n * 10^-18
FromWei(n) == [coefficient |-> n, exponent |-> -18]

\* lines 161-166: the message and the payload
Payload(d) ==
    [chat_id |-> TELEGRAM_CHAT_ID,
     text |-> [block |-> d.blockNumber, amount |-> FromWei(d.fee), hash |-> d.hash]]

\* variant of NextBlockNumber: every other block
NextBlockNumberSkip(n) == n + 2

\* line 101: the successor of range(start_block, end_block + 1)
NextBlockNumber(n) == n + 1

\* variant of FirstBlockOf: the block after the next one
FirstBlockOfSkip(cursor) == cursor + 2

\* line 88: the first block of the range, self.last_processed_block + 1
FirstBlockOf(cursor) == cursor + 1

(***************************************************************************)
(* Initial state: the module has been imported (table created, lines       *)
(* 33-41), DepositTracker() has not been constructed yet.                  *)
(***************************************************************************)
Init ==
    /\ pc = "init"
    /\ height = StartHeight
    /\ last_processed_block = Unset
    /\ current_block = Unset
    /\ start_block = Unset
    /\ end_block = Unset
    /\ block_number = Unset
    /\ block = NoBlock
    /\ txi = 0
    /\ deposit = NoDeposit
    /\ store = <<>>
    /\ posts = <<>>
    /\ errors = 0
    /\ failures = 0
    /\ con = "open"
    /\ init_cursor = Unset
    /\ scan_store = 0
    /\ scan_posts = 0

locals == <<current_block, start_block, end_block, block_number, block, txi, deposit>>
history == <<init_cursor, scan_store, scan_posts>>

\* The frames of process_new_blocks and process_deposit are gone.
DropFrames ==
    /\ start_block' = Unset
    /\ end_block' = Unset
    /\ block_number' = Unset
    /\ block' = NoBlock
    /\ txi' = 0
    /\ deposit' = NoDeposit

\* The environment: a new block is mined.
NewBlock ==
    /\ height < MaxHeight
    /\ height' = height + 1
    /\ UNCHANGED <<pc, last_processed_block, locals, store, posts, errors,
                   failures, history>>
    /\ UNCHANGED con

\* variant of Initialize: the cursor starts at the latest block, without lookback
InitializeFromLatest ==
    /\ pc = "init"
    /\ last_processed_block' = height
    /\ init_cursor' = height
    /\ pc' = "poll"
    /\ UNCHANGED <<height, locals, store, posts, errors, failures,
                   scan_store, scan_posts>>
    /\ UNCHANGED con

\* lines 59-63, 71-77: __init__ / get_last_processed_block
Initialize ==
    /\ pc = "init"
    /\ last_processed_block' = height - LOOKBACK
    /\ init_cursor' = height - LOOKBACK
    /\ pc' = "poll"
    /\ UNCHANGED <<height, locals, store, posts, errors, failures,
                   scan_store, scan_posts>>
    /\ UNCHANGED con

\* line 77 raises: nothing catches it, the process ends (lines 202-204)
InitializeFail ==
    /\ pc = "init"
    /\ failures < MaxFailures
    /\ failures' = failures + 1
    /\ pc' = "crashed"
    /\ UNCHANGED <<height, last_processed_block, locals, store, posts, errors,
                   history>>
    /\ UNCHANGED con

\* lines 86-88 and 90: read the latest height, enter process_new_blocks or sleep
Poll ==
    /\ pc = "poll"
    /\ current_block' = height
    /\ IF height > last_processed_block
       THEN /\ start_block' = FirstBlockOf(last_processed_block)
            /\ end_block' = height
            /\ block_number' = FirstBlockOf(last_processed_block)
            /\ scan_store' = Len(store)
            /\ scan_posts' = Len(posts)
            /\ pc' = "fetch"
       ELSE /\ UNCHANGED <<start_block, end_block, block_number, scan_store, scan_posts>>
            /\ pc' = "poll"
    /\ UNCHANGED <<height, last_processed_block, block, txi, deposit, store, posts,
                   errors, failures, init_cursor>>
    /\ UNCHANGED con

\* line 86 raises
PollFail ==
    /\ pc = "poll"
    /\ failures < MaxFailures
    /\ failures' = failures + 1
    /\ pc' = "backoff"
    /\ UNCHANGED <<height, last_processed_block, locals, store, posts, errors,
                   history>>
    /\ UNCHANGED con

\* after a transaction has been handled: the next one, or the next block
AfterTx ==
    IF txi < Len(block.transactions)
    THEN /\ txi' = txi + 1
         /\ pc' = "filter"
         /\ UNCHANGED block_number
    ELSE /\ txi' = 0
         /\ pc' = "fetch"
         /\ block_number' = NextBlockNumber(block_number)

\* lines 101-103: fetch the next block of the range
FetchBlock ==
    /\ pc = "fetch"
    /\ block_number <= end_block
    /\ block' = BlockAt(block_number)
    /\ IF BlockAt(block_number).transactions = <<>>
       THEN /\ txi' = 0
            /\ pc' = "fetch"
            /\ block_number' = NextBlockNumber(block_number)
       ELSE /\ txi' = 1
            /\ pc' = "filter"
            /\ UNCHANGED block_number
    /\ deposit' = NoDeposit
    /\ UNCHANGED <<height, last_processed_block, current_block, start_block,
                   end_block, store, posts, errors, failures, history>>
    /\ UNCHANGED con

\* line 102 raises
FetchFail ==
    /\ pc = "fetch"
    /\ block_number <= end_block
    /\ failures < MaxFailures
    /\ failures' = failures + 1
    /\ pc' = "backoff"
    /\ UNCHANGED <<height, last_processed_block, locals, store, posts, errors,
                   history>>
    /\ UNCHANGED con

\* lines 104-105 and 114-120: filter one transaction, decode it when it matches
FilterTx ==
    /\ pc = "filter"
    /\ IF Matches(block.transactions[txi])
       THEN /\ deposit' = Decode(block.transactions[txi], block)
            /\ pc' = "save"
            /\ UNCHANGED <<txi, block_number>>
       ELSE /\ deposit' = NoDeposit
            /\ AfterTx
    /\ UNCHANGED <<height, last_processed_block, current_block, start_block,
                   end_block, block, store, posts, errors, failures, history>>
    /\ UNCHANGED con

\* lines 121, 124-144: save_deposit inserts and commits
SaveDeposit ==
    /\ pc = "save"
    /\ store' = Append(store, deposit)
    /\ pc' = "alert"
    /\ UNCHANGED <<height, last_processed_block, locals, posts, errors, failures,
                   history>>
    /\ UNCHANGED con

\* variant of SaveFail: the failure is swallowed and the alert is sent
SaveFailContinue ==
    /\ pc = "save"
    /\ failures < MaxFailures
    /\ failures' = failures + 1
    /\ pc' = "alert"
    /\ UNCHANGED <<height, last_processed_block, locals, store, posts, errors,
                   history>>
    /\ UNCHANGED con

\* lines 131-144 raise: process_deposit is left before line 122
SaveFail ==
    /\ pc = "save"
    /\ failures < MaxFailures
    /\ failures' = failures + 1
    /\ pc' = "backoff"
    /\ UNCHANGED <<height, last_processed_block, locals, store, posts, errors,
                   history>>
    /\ UNCHANGED con

\* lines 122, 146-169: the notification is posted
SendAlert ==
    /\ pc = "alert"
    /\ posts' = Append(posts, Payload(deposit))
    /\ AfterTx
    /\ deposit' = NoDeposit
    /\ UNCHANGED <<height, last_processed_block, current_block, start_block,
                   end_block, block, store, errors, failures, history>>
    /\ UNCHANGED con

\* lines 168-171: the post fails with a RequestException, which is logged
SendAlertDeliveryFail ==
    /\ pc = "alert"
    /\ failures < MaxFailures
    /\ failures' = failures + 1
    /\ posts' = Append(posts, Payload(deposit))
    /\ errors' = errors + 1
    /\ AfterTx
    /\ deposit' = NoDeposit
    /\ UNCHANGED <<height, last_processed_block, current_block, start_block,
                   end_block, block, store, history>>
    /\ UNCHANGED con

\* line 161 raises (outside the try of line 167): nothing is posted
SendAlertRaise ==
    /\ pc = "alert"
    /\ failures < MaxFailures
    /\ failures' = failures + 1
    /\ pc' = "backoff"
    /\ UNCHANGED <<height, last_processed_block, locals, store, posts, errors,
                   history>>
    /\ UNCHANGED con

\* variant of Finish: the cursor moves to the height the chain has by now
FinishReread ==
    /\ pc = "fetch"
    /\ block_number > end_block
    /\ last_processed_block' = height
    /\ pc' = "poll"
    /\ DropFrames
    /\ UNCHANGED <<height, current_block, store, posts, errors, failures, history>>
    /\ UNCHANGED con

\* lines 88-90: process_new_blocks returns, the cursor moves to current_block
Finish ==
    /\ pc = "fetch"
    /\ block_number > end_block
    /\ last_processed_block' = current_block
    /\ pc' = "poll"
    /\ DropFrames
    /\ UNCHANGED <<height, current_block, store, posts, errors, failures, history>>
    /\ UNCHANGED con

\* variant of Backoff: the handler raises again and the process ends
BackoffRaises ==
    /\ pc = "backoff"
    /\ errors' = errors + 1
    /\ pc' = "crashed"
    /\ DropFrames
    /\ UNCHANGED <<height, last_processed_block, current_block, store, posts,
                   failures, history>>
    /\ UNCHANGED con

\* variant of Backoff: the loop resumes at the block that failed
BackoffResume ==
    /\ pc = "backoff"
    /\ errors' = errors + 1
    /\ pc' = "poll"
    /\ last_processed_block' =
          IF block_number = Unset THEN last_processed_block ELSE block_number - 1
    /\ DropFrames
    /\ UNCHANGED <<height, current_block, store, posts, failures, history>>
    /\ UNCHANGED con

\* lines 91-93: the handler logs and sleeps, the loop goes on
Backoff ==
    /\ pc = "backoff"
    /\ errors' = errors + 1
    /\ pc' = "poll"
    /\ DropFrames
    /\ UNCHANGED <<height, last_processed_block, current_block, store, posts,
                   failures, history>>
    /\ UNCHANGED con

\* the process is interrupted (SIGINT): KeyboardInterrupt is not an Exception,
\* the handler of line 91 does not catch it and track_deposits is left
Interrupt ==
    /\ pc \in {"poll", "backoff", "fetch", "filter", "save", "alert"}
    /\ pc' = "stopped"
    /\ DropFrames
    /\ UNCHANGED <<height, last_processed_block, current_block, store, posts,
                   errors, failures, con, history>>

\* lines 65-69: __del__ closes the connection when the tracker is collected
Del ==
    /\ pc \in {"stopped", "crashed"}
    /\ con = "open"
    /\ con' = "closed"
    /\ UNCHANGED <<pc, height, last_processed_block, locals, store, posts,
                   errors, failures, history>>

Next ==
    \/ NewBlock
    \/ Initialize
    \/ InitializeFail
    \/ Poll
    \/ PollFail
    \/ FetchBlock
    \/ FetchFail
    \/ FilterTx
    \/ SaveDeposit
    \/ SaveFail
    \/ SendAlert
    \/ SendAlertDeliveryFail
    \/ SendAlertRaise
    \/ Finish
    \/ Backoff
    \/ Interrupt
    \/ Del

Spec == Init /\ [][Next]_vars

\* the steps of the sequential loop of track_deposits that do not fail
LoopStep ==
    \/ Poll
    \/ FetchBlock
    \/ FilterTx
    \/ SaveDeposit
    \/ SendAlert
    \/ Finish
    \/ Backoff

\* the single thread always takes its next step; faults, new blocks and
\* interrupts are up to the environment
FairSpec == Spec /\ WF_vars(LoopStep)

TypeOK ==
    /\ pc \in {"init", "crashed", "stopped", "poll", "backoff", "fetch", "filter",
             "save", "alert"}
    /\ con \in {"open", "closed"}
    /\ height \in StartHeight..MaxHeight
    /\ failures \in 0..MaxFailures
    /\ errors \in 0..MaxFailures
    /\ pc \in {"filter", "save", "alert"} => txi \in 1..Len(block.transactions)
    /\ pc \in {"fetch", "filter", "save", "alert"} =>
          /\ start_block = last_processed_block + 1
          /\ block_number \in start_block..(end_block + 1)
          /\ end_block = current_block

(***************************************************************************)
(* Vocabulary of the properties.  The deposits of the chain are defined    *)
(* from the chain alone, not through Matches and Decode.                   *)
(***************************************************************************)
HexValue(c) ==
    CASE c \in {"a", "A"} -> 10 [] c \in {"b", "B"} -> 11 [] c \in {"c", "C"} -> 12
      [] c \in {"d", "D"} -> 13 [] c \in {"e", "E"} -> 14 [] c \in {"f", "F"} -> 15
      [] c \in {"x", "X"} -> 16
      [] c = "0" -> 0 [] c = "1" -> 1 [] c = "2" -> 2 [] c = "3" -> 3 [] c = "4" -> 4
      [] c = "5" -> 5 [] c = "6" -> 6 [] c = "7" -> 7 [] c = "8" -> 8 [] c = "9" -> 9

SameAddress(a, b) ==
    /\ Len(a) = Len(b)
    /\ \A i \in 1..Len(a) : HexValue(a[i]) = HexValue(b[i])

IsDepositTx(tx) == tx.to /= NoDestination /\ SameAddress(tx.to, DEPOSIT_CONTRACT_ADDRESS)

TxHeights == {h \in FirstHeight..MaxHeight : TxsAt(h) /= <<>>}

\* the deposits <<height, index>> of the blocks a < height <= b
ChainDeposits(a, b) ==
    {d \in UNION {{<<h, i>> : i \in 1..Len(TxsAt(h))} : h \in TxHeights} :
        /\ a < d[1]
        /\ d[1] <= b
        /\ IsDepositTx(TxsAt(d[1])[d[2]])}

TxOf(d) == TxsAt(d[1])[d[2]]

Records(rows, d) == {i \in 1..Len(rows) : rows[i].hash = Hex(TxOf(d).hash)}

\* the notification calls that carry the data of deposit d
Notifications(calls, d) ==
    {i \in 1..Len(calls) :
        /\ calls[i].text.hash = Hex(TxOf(d).hash)
        /\ calls[i].text.block = d[1]
        /\ calls[i].text.amount = FromWei(TxOf(d).gas * TxOf(d).gasPrice)}

Running == pc \notin {"init", "crashed"}
Processing == pc \in {"fetch", "filter", "save", "alert"}
ScanComplete == pc = "fetch" /\ block_number > end_block

\* the rows and calls of the current scan
ScanRows == SubSeq(store, scan_store + 1, Len(store))
ScanCalls == SubSeq(posts, scan_posts + 1, Len(posts))

(***************************************************************************)
(* C1.  Every matching transaction of a block at or below the cursor       *)
(* (its range has completed PROCESSING, possibly after failed attempts)    *)
(* has exactly one stored record with its hash.                            *)
(***************************************************************************)
ExactlyOneRecordPerDeposit ==
    Running =>
        \A d \in ChainDeposits(init_cursor, last_processed_block) :
            Cardinality(Records(store, d)) = 1

(***************************************************************************)
(* C2.  No two stored records have the same hash.                          *)
(***************************************************************************)
HashUnique ==
    \A i, j \in 1..Len(store) : store[i].hash = store[j].hash => i = j

(***************************************************************************)
(* C3.  The cursor never decreases, and when a PROCESSING phase of range   *)
(* (a, b] completes the cursor becomes b, the height read by the poll that *)
(* opened the range.                                                       *)
(***************************************************************************)
CursorMonotoneAndExact ==
    [][ /\ pc /= "init" => last_processed_block' >= last_processed_block
        /\ (Processing /\ pc' = "poll") =>
              /\ start_block = last_processed_block + 1
              /\ last_processed_block' = end_block
              /\ end_block = current_block ]_vars

\* the cursor has moved to the height polled, and the chain is further already
CursorAdvanced ==
    /\ pc = "poll"
    /\ last_processed_block > init_cursor
    /\ last_processed_block = current_block
    /\ height > last_processed_block

(***************************************************************************)
(* C4.  An exception while polling or processing leads to BACKOFF and back *)
(* to POLLING, and the cursor keeps the value it had before the failed     *)
(* iteration.                                                              *)
(***************************************************************************)
FailureKeepsCursor ==
    [][ /\ (failures' > failures /\ Running /\ pc /= "alert") => pc' = "backoff"
        /\ pc' = "backoff" =>
              /\ last_processed_block' = last_processed_block
              /\ Processing => last_processed_block = start_block - 1
        /\ pc = "backoff" =>
              /\ pc' \in {"backoff", "poll", "stopped"}
              /\ last_processed_block' = last_processed_block
              /\ pc' = "poll" => errors' = errors + 1 ]_vars

\* back in POLLING after a range failed partway, with records of it stored
RecoveredFromPartialFailure ==
    /\ pc = "poll"
    /\ errors > 0
    /\ store /= <<>>
    /\ last_processed_block = init_cursor

(***************************************************************************)
(* C5.  A failure of the notification step leaves the stored record in     *)
(* place, causes no BACKOFF and lets the loop go on with the next          *)
(* transaction.                                                            *)
(***************************************************************************)
NotifyFailureIsHarmless ==
    [][ (pc = "alert" /\ failures' > failures) =>
            /\ store' = store
            /\ pc' /= "backoff"
            /\ last_processed_block' = last_processed_block ]_vars

(***************************************************************************)
(* C6.  The cursor is a watermark: every matching transaction of a block   *)
(* in (initial cursor, cursor] is stored and had its notification call,    *)
(* and the cursor moves only from a to b at the end of a scan that started *)
(* at a + 1 and fetched b last.                                            *)
(***************************************************************************)
CursorIsWatermark ==
    [][ /\ Running' =>
              \A d \in ChainDeposits(init_cursor', last_processed_block') :
                  /\ Records(store', d) /= {}
                  /\ Notifications(posts', d) /= {}
        /\ (pc /= "init" /\ last_processed_block' /= last_processed_block) =>
              /\ start_block = last_processed_block + 1
              /\ block.number = last_processed_block'
              /\ block_number = last_processed_block' + 1 ]_vars

\* the cursor is past all four deposits although attempts failed on the way
WatermarkAfterFailures ==
    /\ Running
    /\ failures > 0
    /\ last_processed_block > StartHeight
    /\ Cardinality(ChainDeposits(init_cursor, last_processed_block)) = 4

(***************************************************************************)
(* C7.  Within an attempt the blocks are fetched in ascending order, none  *)
(* omitted; the transactions of a block are taken in their order, none     *)
(* omitted; the insert of a deposit comes before its notification and      *)
(* before any work on the next transaction or block.                       *)
(***************************************************************************)
ScanOrder ==
    [][ /\ (block' /= block /\ block' /= NoBlock) =>
              /\ block' = BlockAt(block'.number)
              /\ block'.number = IF block = NoBlock THEN last_processed_block + 1
                                 ELSE block.number + 1
        /\ (Processing /\ pc' = "poll") => block.number = end_block
        /\ pc' = "filter" =>
              \/ block' /= block /\ txi' = 1
              \/ block' = block /\ txi' = txi + 1
              \/ block' = block /\ txi' = txi /\ pc = "filter"
        /\ (pc \in {"filter", "alert"} /\ pc' = "fetch") =>
              txi = Len(block.transactions)
        /\ (pc = "filter" /\ pc' \notin {"filter", "stopped"}
               /\ IsDepositTx(block.transactions[txi])) =>
              /\ pc' = "save"
              /\ deposit'.hash = Hex(block.transactions[txi].hash)
              /\ deposit'.blockNumber = block.number
        /\ store' /= store =>
              /\ pc = "save" /\ pc' = "alert"
              /\ store' = Append(store, deposit)
              /\ UNCHANGED <<posts, block, txi, block_number, deposit>>
        /\ posts' /= posts =>
              /\ pc = "alert"
              /\ store' = store
              /\ store /= <<>>
              /\ store[Len(store)] = deposit
              /\ posts' = Append(posts, Payload(deposit)) ]_vars

\* the second deposit of a two-deposit block is stored, its notification is next
SecondDepositStored ==
    /\ pc = "alert"
    /\ txi = 2
    /\ block.number = FirstHeight + 1
    /\ Len(ScanRows) = 3
    /\ Len(ScanCalls) = 2

(***************************************************************************)
(* C8.  The blockNumber of the stored records never decreases in insertion *)
(* order.                                                                  *)
(***************************************************************************)
BlockNumberMonotone ==
    \A i, j \in 1..Len(store) : i < j => store[i].blockNumber <= store[j].blockNumber

(***************************************************************************)
(* C9.  A scan of (cursor, latest] that completes has made exactly one     *)
(* notification call and one record per matching transaction of the range, *)
(* with that transaction's block number, fee and hash, and none else.      *)
(***************************************************************************)
OneNotificationPerDeposit ==
    ScanComplete =>
        /\ \A d \in ChainDeposits(start_block - 1, end_block) :
              /\ Cardinality(Notifications(ScanCalls, d)) = 1
              /\ Cardinality(Records(ScanRows, d)) = 1
        /\ Len(ScanCalls) = Cardinality(ChainDeposits(start_block - 1, end_block))
        /\ Len(ScanRows) = Cardinality(ChainDeposits(start_block - 1, end_block))

\* a failure-free scan over a range with a single deposit (gas 21000, price 10)
ScanWithOneDeposit ==
    /\ ScanComplete
    /\ failures = 0
    /\ ChainDeposits(start_block - 1, end_block) = {<<StartHeight + 1, 1>>}
    /\ Len(ScanCalls) = 1
    /\ ScanCalls[1].text.amount.coefficient = 210000
    /\ ScanRows = <<[blockNumber |-> StartHeight + 1,
                     blockTimestamp |-> Timestamp(StartHeight + 1),
                     fee |-> 210000,
                     hash |-> <<"0", "x", "a", "b", "c", "d">>,
                     pubkey |-> Selector \o Rep("a", 88)]>>

(***************************************************************************)
(* C10.  When the insert of a deposit fails, its notification is attempted *)
(* all the same.                                                           *)
(***************************************************************************)
NotifyAfterInsertFailure ==
    [][ (pc = "save" /\ failures' > failures) => pc' = "alert" ]_vars

(***************************************************************************)
(* C11.  No failure ends the process: a failure of the RPC, the store or   *)
(* the notifier, also while INITIALIZING, is followed by logging and       *)
(* backoff, never by termination.                                          *)
(***************************************************************************)
NoFailureIsFatal ==
    [][ failures' > failures => pc' \in {"backoff", "filter", "fetch"} ]_vars

(***************************************************************************)
(* C12.  Every stored pubkey has the full extraction length: a matching    *)
(* transaction with a shorter input payload never yields a stored record   *)
(* with a truncated pubkey.                                                *)
(***************************************************************************)
PubkeyLength == PubkeyTo - PubkeyFrom

NoTruncatedPubkey ==
    \A i \in 1..Len(store) : Len(store[i].pubkey) = PubkeyLength

(***************************************************************************)
(* C13.  For an input payload that is long enough, the stored pubkey is    *)
(* the PubkeyLength characters that follow the '0x' prefix and the method  *)
(* selector.                                                               *)
(***************************************************************************)
PayloadStart == 2 + Len(Selector)

PubkeyAfterSelector(input) ==
    SubSeq(input, PayloadStart + 1, PayloadStart + PubkeyLength)

PubkeyFollowsSelector ==
    \A i \in 1..Len(store) :
        \A d \in ChainDeposits(0, MaxHeight) :
            (/\ store[i].hash = Hex(TxOf(d).hash)
             /\ Len(TxOf(d).input) >= PayloadStart + PubkeyLength) =>
                store[i].pubkey = PubkeyAfterSelector(TxOf(d).input)

(***************************************************************************)
(* C14.  A transaction is handled as a deposit exactly when it has a       *)
(* destination that equals the target address up to case; every record and *)
(* every notification belongs to such a transaction.                       *)
(***************************************************************************)
DepositIffDestinationMatches ==
    [][ /\ (pc = "filter" /\ pc' /= "stopped" /\ <<pc, txi, block_number>>' /= <<pc, txi, block_number>>) =>
              (pc' = "save" <=> IsDepositTx(block.transactions[txi]))
        /\ store' /= store =>
              /\ IsDepositTx(block.transactions[txi])
              /\ store'[Len(store')].hash = Hex(block.transactions[txi].hash)
        /\ posts' /= posts =>
              /\ IsDepositTx(block.transactions[txi])
              /\ posts'[Len(posts')].text.hash = Hex(block.transactions[txi].hash) ]_vars

\* the first block is done: its contract creation and its transfer to another
\* address left nothing, its mixed-case deposit one record and one call
CreationFilteredOut ==
    /\ pc = "fetch"
    /\ block.number = FirstHeight
    /\ block_number = FirstHeight + 1
    /\ Len(ScanRows) = 1
    /\ Len(ScanCalls) = 1
    /\ ScanRows[1].hash = Hex(<<10, 171>>)

(***************************************************************************)
(* C15.  The fee of every decoded deposit is gas times gasPrice of its     *)
(* transaction, not truncated and not negative: gas 21000 at price 50      *)
(* gives 1050000, gas 21000 at price 10 gives 210000.                      *)
(***************************************************************************)
FeeOf(d) == TxOf(d).gas * TxOf(d).gasPrice

FeeIsGasTimesPrice ==
    \A d \in ChainDeposits(0, MaxHeight) :
        \A r \in {store[i] : i \in 1..Len(store)} \cup {deposit} :
            r.hash = Hex(TxOf(d).hash) =>
                /\ r.fee = FeeOf(d)
                /\ r.fee >= 0
                /\ (TxOf(d).gas = 21000 /\ TxOf(d).gasPrice = 50) => r.fee = 1050000
                /\ (TxOf(d).gas = 21000 /\ TxOf(d).gasPrice = 10) => r.fee = 210000

\* the deposit with gas 21000 and gasPrice 50 has been decoded
FeeDecoded ==
    /\ pc = "save"
    /\ deposit.hash = Hex(<<10, 171>>)
    /\ deposit.fee = 1050000

(***************************************************************************)
(* C16.  Once a shutdown is requested the loop stops at the top of a poll  *)
(* iteration, never inside a range, and the store connection is closed on  *)
(* exit.                                                                   *)
(***************************************************************************)
CleanShutdown ==
    [][ pc' = "stopped" => pc \in {"poll", "backoff", "stopped"} ]_vars

(***************************************************************************)
(* C17.  A retry of a failed range starts at cursor + 1 again: when it     *)
(* completes, every record and every notification call that a failed       *)
(* attempt on the range had made is there once more.                       *)
(***************************************************************************)
RetryRepeatsRange ==
    [][ /\ (pc = "backoff" /\ pc' = "poll" /\ start_block /= Unset) =>
              last_processed_block' + 1 = start_block
        /\ (pc = "poll" /\ pc' = "fetch") =>
              /\ start_block' = last_processed_block + 1
              /\ block_number' = last_processed_block + 1
        /\ ScanComplete' =>
              /\ \A i \in 1..scan_store' :
                    store'[i].blockNumber > last_processed_block' =>
                        \E j \in (scan_store' + 1)..Len(store') : store'[j] = store'[i]
              /\ \A i \in 1..scan_posts' :
                    posts'[i].text.block > last_processed_block' =>
                        \E j \in (scan_posts' + 1)..Len(posts') : posts'[j] = posts'[i] ]_vars

\* a retry has completed a range of which an earlier attempt had stored and
\* notified a deposit
RetryCompleted ==
    /\ ScanComplete
    /\ failures > 0
    /\ scan_store > 0
    /\ scan_posts > 0
    /\ store[1].blockNumber > last_processed_block
    /\ Cardinality({i \in 1..Len(store) : store[i] = store[1]}) = 2
    /\ Cardinality({i \in 1..Len(posts) : posts[i] = posts[1]}) = 2

CallsOf(h) == {i \in 1..Len(posts) : posts[i].text.hash = h}
RowsOf(h) == {i \in 1..Len(store) : store[i].hash = h}

NotifiedOnlyIfStored ==
    [][ /\ \A i \in 1..Len(posts') :
              Cardinality({k \in 1..Len(posts') : posts'[k].text.hash = posts'[i].text.hash})
                 <= Cardinality({k \in 1..Len(store') : store'[k].hash = posts'[i].text.hash})
        /\ (pc = "save" /\ failures' > failures) =>
              /\ posts' = posts
              /\ pc' = "backoff" ]_vars

\* the insert of a deposit failed: it is neither stored nor notified
InsertFailedNotNotified ==
    /\ pc = "backoff"
    /\ deposit /= NoDeposit
    /\ RowsOf(deposit.hash) = {}
    /\ CallsOf(deposit.hash) = {}

(***************************************************************************)
(* C20.  Progress: once the tracker is constructed and faults are finite,  *)
(* the cursor is level with the chain again and again, so it reaches every *)
(* height the chain has reached (unless the process is stopped from        *)
(* outside); and the cursor gets past a block only at the end of an        *)
(* attempt that walked the whole range without raising.                    *)
(***************************************************************************)
Started == init_cursor /= Unset

====
